---- MODULE Spec2Model ----
(***************************************************************************)
(* femme: a pretty-printing / ndjson back-end for the `log` facade.        *)
(*                                                                         *)
(* The model covers the builder (src/lib.rs), the installation of the      *)
(* logger into the facade's process-wide state (Femme::finish) and the     *)
(* Log implementation for non-wasm targets (src/x86.rs).                   *)
(*                                                                         *)
(* Text is modelled as a sequence of tokens: every literal piece of a      *)
(* format string and every substituted argument is one token.  Module      *)
(* paths and override keys are sequences of characters so that             *)
(* `split("::")` is computed rather than assumed.                          *)
(***************************************************************************)
EXTENDS Integers, Sequences, FiniteSets, TLC

VARIABLES
    femme,                  \* per thread: the Femme value the thread is building
    pc,                     \* per thread: position in the thread's code
    max_level,              \* per thread: the local `max_level` of finish
    nbuild,                 \* number of builder calls made so far
    nfor,                   \* number of level_for calls made so far
    LOGGER,                 \* log crate: the installed logger (Option<Femme>)
    MAX_LOG_LEVEL_FILTER,   \* log crate: the published global maximum level
    lastEnabled,            \* the most recent enabled() call and its result
    call,                   \* per thread: id of the thread's latest log call, 0 for none
    threshold,              \* per thread: the local `level` of Femme::log
    todo,                   \* per thread: the writes of the log call still to do
    records,                \* the records of the log calls made so far, by call id
    lock,                   \* owner of the stdout lock (Option<thread>)
    lockOrder,              \* ids of log calls in the order they took the lock
    stdout                  \* the bytes written to stdout, tagged by log call

vars == <<femme, pc, max_level, nbuild, nfor, LOGGER, MAX_LOG_LEVEL_FILTER,
          lastEnabled, call, threshold, todo, records, lock, lockOrder, stdout>>

buildVars == <<femme, nbuild, nfor>>
logVars == <<call, threshold, todo, records, lock, lockOrder, stdout>>

----------------------------------------------------------------------------
(* Bounds of the model *)

MaxBuilderCalls == 2
MaxKvs == 2
MaxLogs == 3

Threads == {"t1", "t2"}

----------------------------------------------------------------------------
(* log::LevelFilter and log::Level, with the facade's numeric order *)

Off == 0
Error == 1
Warn == 2
Info == 3
Debug == 4
Trace == 5

LevelFilter == Off..Trace
Level == Error..Trace

(* Option<T> is a sequence of length 0 or 1 *)
None == <<>>
Some(x) == <<x>>

(* enum Logger *)
Logger == {"Pretty", "NDJson"}

(* ANSI term codes *)
RESET == "\\x1b[0m"
BOLD == "\\x1b[1m"
RED == "\\x1b[31m"
GREEN == "\\x1b[32m"
YELLOW == "\\x1b[33m"

----------------------------------------------------------------------------
(* Strings that are split: sequences of characters *)

Names == { <<"a">>, <<"b">>, <<"a", ":", ":", "s">> }

(* Display of a name *)
Str(n) ==
    CASE n = <<"a">> -> "a"
      [] n = <<"b">> -> "b"
      [] n = <<"a", ":", ":", "s">> -> "a::s"
      [] OTHER -> "?"

(* index of the first "::" of s at or after i, 0 when there is none *)
RECURSIVE FindSep(_, _)
FindSep(s, i) ==
    IF i + 1 > Len(s) THEN 0
    ELSE IF s[i] = ":" /\ s[i + 1] = ":" THEN i
    ELSE FindSep(s, i + 1)

(* module.split("::").nth(0) *)
FirstSegment(s) ==
    LET i == FindSep(s, 1) IN IF i = 0 THEN s ELSE SubSeq(s, 1, i - 1)

----------------------------------------------------------------------------
(* struct Femme; targets is the set of (key, value) entries of the HashMap *)

Default == [logger |-> "Pretty", level |-> Info, targets |-> {}]

ContainsKey(targets, k) == \E e \in targets : e[1] = k

Get(targets, k) == (CHOOSE e \in targets : e[1] = k)[2]

Values(targets) == {e[2] : e \in targets}

logger(f, lg) == [f EXCEPT !.logger = lg]

level(f, l) == [f EXCEPT !.level = l]

level_for_dup(f, module, l) ==
    [f EXCEPT !.targets = @ \cup {<<module, l>>}]

level_for(f, module, l) ==
    [f EXCEPT !.targets =
        IF ContainsKey(@, module)
        THEN {IF e[1] = module THEN <<module, l>> ELSE e : e \in @}
        ELSE @ \cup {<<module, l>>}]

module_level_full_path(f, record) ==
    IF record.module_path = None THEN f.level
    ELSE LET module == record.module_path[1] IN
         IF ContainsKey(f.targets, module) THEN Get(f.targets, module)
         ELSE f.level

module_level(f, record) ==
    IF record.module_path = None THEN f.level
    ELSE LET module == FirstSegment(record.module_path[1]) IN
         IF ContainsKey(f.targets, module) THEN Get(f.targets, module)
         ELSE f.level

Max(a, b) == IF a >= b THEN a ELSE b

MinValue(targets) ==
    IF targets = {} THEN Off
    ELSE CHOOSE m \in Values(targets) : \A v \in Values(targets) : m <= v

(* self.targets.values().max().unwrap_or_else(|| &LevelFilter::Off) *)
MaxValue(targets) ==
    IF targets = {} THEN Off
    ELSE CHOOSE m \in Values(targets) : \A v \in Values(targets) : v <= m

compute_max_level_default(f) == f.level

(* the max_level computed by finish *)
compute_max_level(f) == Max(f.level, MaxValue(f.targets))

----------------------------------------------------------------------------
(* Builder calls of a thread on the Femme value it owns *)

SetLogger(t, lg) ==
    /\ pc[t] = "build"
    /\ nbuild < MaxBuilderCalls
    /\ femme' = [femme EXCEPT ![t] = logger(@, lg)]
    /\ nbuild' = nbuild + 1
    /\ nfor' = nfor
    /\ UNCHANGED <<pc, max_level, LOGGER, MAX_LOG_LEVEL_FILTER, lastEnabled>>
    /\ UNCHANGED logVars

SetLevel(t, l) ==
    /\ pc[t] = "build"
    /\ nbuild < MaxBuilderCalls
    /\ femme' = [femme EXCEPT ![t] = level(@, l)]
    /\ nbuild' = nbuild + 1
    /\ nfor' = nfor
    /\ UNCHANGED <<pc, max_level, LOGGER, MAX_LOG_LEVEL_FILTER, lastEnabled>>
    /\ UNCHANGED logVars

SetLevelFor(t, module, l) ==
    /\ pc[t] = "build"
    /\ nbuild < MaxBuilderCalls
    /\ femme' = [femme EXCEPT ![t] = level_for(@, module, l)]
    /\ nbuild' = nbuild + 1
    /\ nfor' = nfor + 1
    /\ UNCHANGED <<pc, max_level, LOGGER, MAX_LOG_LEVEL_FILTER, lastEnabled>>
    /\ UNCHANGED logVars

----------------------------------------------------------------------------
(* Femme::finish, one action per statement *)

FinishComputeMax(t) ==
    /\ pc[t] = "build"
    /\ max_level' = [max_level EXCEPT ![t] = compute_max_level(femme[t])]
    /\ pc' = [pc EXCEPT ![t] = "set_boxed_logger"]
    /\ UNCHANGED <<LOGGER, MAX_LOG_LEVEL_FILTER, lastEnabled>>
    /\ UNCHANGED buildVars
    /\ UNCHANGED logVars

FinishSetLoggerAlways(t) ==
    /\ pc[t] = "set_boxed_logger"
    /\ LOGGER' = Some(femme[t])
    /\ pc' = [pc EXCEPT ![t] = "set_max_level"]
    /\ UNCHANGED <<max_level, MAX_LOG_LEVEL_FILTER, lastEnabled>>
    /\ UNCHANGED buildVars
    /\ UNCHANGED logVars

(* log::set_boxed_logger(logger)?  : installs only when nothing is installed *)
FinishSetLogger(t) ==
    /\ pc[t] = "set_boxed_logger"
    /\ IF LOGGER = None
       THEN /\ LOGGER' = Some(femme[t])
            /\ pc' = [pc EXCEPT ![t] = "set_max_level"]
       ELSE /\ LOGGER' = LOGGER
            /\ pc' = [pc EXCEPT ![t] = "Err"]
    /\ UNCHANGED <<max_level, MAX_LOG_LEVEL_FILTER, lastEnabled>>
    /\ UNCHANGED buildVars
    /\ UNCHANGED logVars

(* log::set_max_level(max_level); Ok(()) *)
FinishSetMaxLevel(t) ==
    /\ pc[t] = "set_max_level"
    /\ MAX_LOG_LEVEL_FILTER' = max_level[t]
    /\ pc' = [pc EXCEPT ![t] = "Ok"]
    /\ UNCHANGED <<max_level, LOGGER, lastEnabled>>
    /\ UNCHANGED buildVars
    /\ UNCHANGED logVars

----------------------------------------------------------------------------
(* impl Log for Femme: enabled *)

enabled(metadata_level) == metadata_level <= MAX_LOG_LEVEL_FILTER

Published == \E t \in Threads : pc[t] = "Ok"

NoCall == [level |-> Off, result |-> FALSE, published |-> FALSE]

EnabledSelfLevel(t, l) ==
    /\ pc[t] \in {"build", "Ok", "Err"}
    /\ lastEnabled' = [level |-> l, result |-> (l <= femme[t].level),
                       published |-> Published]
    /\ UNCHANGED <<pc, max_level, LOGGER, MAX_LOG_LEVEL_FILTER>>
    /\ UNCHANGED buildVars
    /\ UNCHANGED logVars

Enabled(t, l) ==
    /\ pc[t] \in {"build", "Ok", "Err"}
    /\ lastEnabled' = [level |-> l, result |-> enabled(l), published |-> Published]
    /\ UNCHANGED <<pc, max_level, LOGGER, MAX_LOG_LEVEL_FILTER>>
    /\ UNCHANGED buildVars
    /\ UNCHANGED logVars

----------------------------------------------------------------------------
(* log::Record: level, target, module_path, args and key_values *)

Pairs == { <<"k1", "v1">>, <<"k2", "v2">> }

KeyValues == UNION { [1..n -> Pairs] : n \in 0..MaxKvs }

Targets == { <<"a", ":", ":", "s">>, <<"b">> }

Records ==
    [level : Level, target : Targets,
     module_path : {None} \cup {Some(p) : p \in Names},
     args : {"msg"}, key_values : KeyValues]

(* values of UNIX_EPOCH.elapsed().as_millis() *)
Millis == {1000, 1001}

(* concatenation of a sequence of sequences *)
RECURSIVE Flatten(_)
Flatten(ss) == IF ss = <<>> THEN <<>> ELSE Head(ss) \o Flatten(Tail(ss))

(* format_kv_pairs: one write per visited pair *)
format_kv_pairs(record) ==
    [i \in 1..Len(record.key_values) |->
        <<"\n    ", BOLD, record.key_values[i][1], RESET, " ",
          record.key_values[i][2]>>]

ColourNoYellow(lvl) ==
    CASE lvl \in {Trace, Debug, Info, Warn} -> GREEN
      [] lvl = Error -> RED

Colour(lvl) ==
    CASE lvl \in {Trace, Debug, Info} -> GREEN
      [] lvl = Warn -> YELLOW
      [] lvl = Error -> RED

(* write_pretty: the writes it makes, in order *)
write_pretty(record) ==
    << <<Colour(record.level), BOLD, Str(record.target), RESET>>,
       <<" ", record.args>> >>
    \o format_kv_pairs(record)
    \o << <<"\n">> >>

get_level(lvl) ==
    CASE lvl = Trace -> 10
      [] lvl = Debug -> 20
      [] lvl = Info -> 30
      [] lvl = Warn -> 40
      [] lvl = Error -> 50

(* write_ndjson: the writes it makes, in order *)
write_ndjson(record, now) ==
    << <<"{">>,
       <<"\"level\":", ToString(get_level(record.level))>>,
       <<",\"time\":", ToString(now)>>,
       <<",\"msg\":\"", record.args, "\"">> >>
    \o format_kv_pairs(record)
    \o << <<"}", "\n">> >>

Tagged(id, tokens) == [i \in 1..Len(tokens) |-> <<id, tokens[i]>>]

----------------------------------------------------------------------------
(* impl Log for Femme: log, one action per statement *)

(* a thread calls log with a record *)
Call(t, r) ==
    /\ pc[t] = "idle"
    /\ Len(records) < MaxLogs
    /\ records' = Append(records, r)
    /\ call' = [call EXCEPT ![t] = Len(records) + 1]
    /\ pc' = [pc EXCEPT ![t] = "log"]
    /\ UNCHANGED <<max_level, LOGGER, MAX_LOG_LEVEL_FILTER, lastEnabled>>
    /\ UNCHANGED <<threshold, todo, lock, lockOrder, stdout>>
    /\ UNCHANGED buildVars

LogLevelStrict(t) ==
    /\ pc[t] = "log"
    /\ LET lvl == module_level(LOGGER[1], records[call[t]]) IN
       /\ threshold' = [threshold EXCEPT ![t] = lvl]
       /\ pc' = [pc EXCEPT ![t] =
                    IF records[call[t]].level < lvl THEN "lock" ELSE "idle"]
    /\ UNCHANGED <<max_level, LOGGER, MAX_LOG_LEVEL_FILTER, lastEnabled>>
    /\ UNCHANGED <<call, todo, records, lock, lockOrder, stdout>>
    /\ UNCHANGED buildVars

(* let level = self.module_level(record); if record.level() <= *level *)
LogLevel(t) ==
    /\ pc[t] = "log"
    /\ LET lvl == module_level(LOGGER[1], records[call[t]]) IN
       /\ threshold' = [threshold EXCEPT ![t] = lvl]
       /\ pc' = [pc EXCEPT ![t] =
                    IF records[call[t]].level <= lvl THEN "lock" ELSE "idle"]
    /\ UNCHANGED <<max_level, LOGGER, MAX_LOG_LEVEL_FILTER, lastEnabled>>
    /\ UNCHANGED <<call, todo, records, lock, lockOrder, stdout>>
    /\ UNCHANGED buildVars

(* the writes of the renderer selected by self.logger *)
Render(f, record, now) ==
    IF f.logger = "Pretty" THEN write_pretty(record)
    ELSE write_ndjson(record, now)

AcquireLockNoWait(t) ==
    /\ pc[t] = "lock"
    /\ lock' = Some(t)
    /\ lockOrder' = Append(lockOrder, call[t])
    /\ \E now \in Millis :
          todo' = [todo EXCEPT ![t] = Render(LOGGER[1], records[call[t]], now)]
    /\ pc' = [pc EXCEPT ![t] = "write"]
    /\ UNCHANGED <<max_level, LOGGER, MAX_LOG_LEVEL_FILTER, lastEnabled>>
    /\ UNCHANGED <<call, threshold, records, stdout>>
    /\ UNCHANGED buildVars

(* let mut handle = stdout.lock(); match self.logger *)
AcquireLock(t) ==
    /\ pc[t] = "lock"
    /\ lock = None
    /\ lock' = Some(t)
    /\ lockOrder' = Append(lockOrder, call[t])
    /\ \E now \in Millis :
          todo' = [todo EXCEPT ![t] = Render(LOGGER[1], records[call[t]], now)]
    /\ pc' = [pc EXCEPT ![t] = "write"]
    /\ UNCHANGED <<max_level, LOGGER, MAX_LOG_LEVEL_FILTER, lastEnabled>>
    /\ UNCHANGED <<call, threshold, records, stdout>>
    /\ UNCHANGED buildVars

(* one write!/writeln! on the locked handle *)
Write(t) ==
    /\ pc[t] = "write"
    /\ todo[t] # <<>>
    /\ stdout' = stdout \o Tagged(call[t], Head(todo[t]))
    /\ todo' = [todo EXCEPT ![t] = Tail(@)]
    /\ UNCHANGED <<pc, max_level, LOGGER, MAX_LOG_LEVEL_FILTER, lastEnabled>>
    /\ UNCHANGED <<call, threshold, records, lock, lockOrder>>
    /\ UNCHANGED buildVars

(* the handle goes out of scope; log returns *)
Unlock(t) ==
    /\ pc[t] = "write"
    /\ todo[t] = <<>>
    /\ lock' = None
    /\ pc' = [pc EXCEPT ![t] = "idle"]
    /\ UNCHANGED <<max_level, LOGGER, MAX_LOG_LEVEL_FILTER, lastEnabled>>
    /\ UNCHANGED <<call, threshold, todo, records, lockOrder, stdout>>
    /\ UNCHANGED buildVars

----------------------------------------------------------------------------
(* Specification of the builder and the installation *)

Init ==
    /\ femme = [t \in Threads |-> Default]
    /\ pc = [t \in Threads |-> "build"]
    /\ max_level = [t \in Threads |-> Off]
    /\ nbuild = 0
    /\ nfor = 0
    /\ LOGGER = None
    /\ MAX_LOG_LEVEL_FILTER = Off
    /\ lastEnabled = NoCall
    /\ call = [t \in Threads |-> 0]
    /\ threshold = [t \in Threads |-> Off]
    /\ todo = [t \in Threads |-> <<>>]
    /\ records = <<>>
    /\ lock = None
    /\ lockOrder = <<>>
    /\ stdout = <<>>

ModuleKeys == { <<"a">>, <<"a", ":", ":", "s">> }

Next ==
    \/ \E t \in Threads, lg \in Logger : SetLogger(t, lg)
    \/ \E t \in Threads, l \in LevelFilter : SetLevel(t, l)
    \/ \E t \in Threads, m \in ModuleKeys, l \in LevelFilter : SetLevelFor(t, m, l)
    \/ \E t \in Threads : FinishComputeMax(t)
    \/ \E t \in Threads : FinishSetLogger(t)
    \/ \E t \in Threads : FinishSetMaxLevel(t)
    \/ \E t \in Threads, l \in Level : Enabled(t, l)

Spec == Init /\ [][Next]_vars

----------------------------------------------------------------------------
(* Specification of one log call: every installed configuration, every record *)

OverrideLevels == {Warn, Trace}

TargetMaps ==
    { m \in SUBSET (ModuleKeys \X OverrideLevels) :
        \A e1 \in m, e2 \in m : e1[1] = e2[1] => e1 = e2 }

Configs == [logger : Logger, level : LevelFilter, targets : TargetMaps]

InitInstalled(f) ==
    /\ femme = [t \in Threads |-> Default]
    /\ max_level = [t \in Threads |-> Off]
    /\ nbuild = 0
    /\ nfor = 0
    /\ LOGGER = Some(f)
    /\ MAX_LOG_LEVEL_FILTER = compute_max_level(f)
    /\ lastEnabled = NoCall
    /\ threshold = [t \in Threads |-> Off]
    /\ todo = [t \in Threads |-> <<>>]
    /\ lock = None
    /\ lockOrder = <<>>
    /\ stdout = <<>>

InitLog ==
    /\ \E f \in Configs : InitInstalled(f)
    /\ \E r \in Records : records = <<r>>
    /\ call = [t \in Threads |-> IF t = "t1" THEN 1 ELSE 0]
    /\ pc = [t \in Threads |-> IF t = "t1" THEN "log" ELSE "idle"]

NextLog ==
    \/ \E t \in Threads : LogLevel(t)
    \/ \E t \in Threads : AcquireLock(t)
    \/ \E t \in Threads : Write(t)
    \/ \E t \in Threads : Unlock(t)

SpecLog == InitLog /\ [][NextLog]_vars

----------------------------------------------------------------------------
(* Specification of concurrent log calls on an installed logger *)

ConcConfigs == [logger : Logger, level : {Info}, targets : {{}}]

ConcRecords ==
    [level : {Info, Debug}, target : {<<"b">>}, module_path : {Some(<<"b">>)},
     args : {"msg"},
     key_values : { <<>>, << <<"k1", "v1">>, <<"k2", "v2">> >> }]

InitConc ==
    /\ \E f \in ConcConfigs : InitInstalled(f)
    /\ records = <<>>
    /\ call = [t \in Threads |-> 0]
    /\ pc = [t \in Threads |-> "idle"]

NextConc ==
    \/ \E t \in Threads, r \in ConcRecords : Call(t, r)
    \/ \E t \in Threads : LogLevel(t)
    \/ \E t \in Threads : AcquireLock(t)
    \/ \E t \in Threads : Write(t)
    \/ \E t \in Threads : Unlock(t)

SpecConc == InitConc /\ [][NextConc]_vars

----------------------------------------------------------------------------
(* Observations of a run *)

(* the tokens a log call has written, in order *)
Entry(id) ==
    LET mine == SelectSeq(stdout, LAMBDA e : e[1] = id) IN
    [i \in 1..Len(mine) |-> mine[i][2]]

Emitted(id) == \E i \in 1..Len(stdout) : stdout[i][1] = id

(* thread t has made a log call and the call has returned *)
Returned(t) == call[t] # 0 /\ pc[t] = "idle"

(* thread t has made a log call and the call is past its threshold lookup *)
Looked(t) == call[t] # 0 /\ pc[t] # "log"

(* the override stored for the first "::" segment of name, else the default *)
KeyLookup(f, name) ==
    LET seg == FirstSegment(name)
        hit == {e \in f.targets : e[1] = seg}
    IN  IF hit = {} THEN f.level ELSE (CHOOSE e \in hit : TRUE)[2]

(* the threshold of a record by its module path *)
PathThreshold(f, r) ==
    IF r.module_path = None THEN f.level ELSE KeyLookup(f, r.module_path[1])

(* f without the overrides stored under a name that contains "::" *)
Shallow(f) == [f EXCEPT !.targets = {e \in @ : FindSep(e[1], 1) = 0}]

----------------------------------------------------------------------------
----------------------------------------------------------------------------
----------------------------------------------------------------------------
(* the severity code of the machine format *)
SeverityCode(lvl) ==
    CASE lvl = Trace -> "10"
      [] lvl = Debug -> "20"
      [] lvl = Info -> "30"
      [] lvl = Warn -> "40"
      [] lvl = Error -> "50"

RECURSIVE JsonFields(_)
JsonFields(kvs) ==
    IF kvs = <<>> THEN <<>>
    ELSE <<",\"", Head(kvs)[1], "\":", Head(kvs)[2]>> \o JsonFields(Tail(kvs))

NdjsonLine(r, ms) ==
    <<"{", "\"level\":", SeverityCode(r.level), ",\"time\":", ToString(ms),
      ",\"msg\":\"", r.args, "\"">>
    \o JsonFields(r.key_values)
    \o <<"}", "\n">>

LineBreaks == {"\n", "\n    "}

(* C3: in NDJson mode an emitted record is the one line                    *)
(* {"level":<code>,"time":<ms>,"msg":"<message>" [,"<key>":<value>]* }     *)
(* and a newline, with no line break before the terminating newline.       *)
C3_NdjsonLine ==
    \A t \in Threads :
        (Returned(t) /\ Emitted(call[t]) /\ LOGGER[1].logger = "NDJson") =>
            LET out == Entry(call[t]) IN
            /\ \E ms \in Millis : out = NdjsonLine(records[call[t]], ms)
            /\ \A i \in 1..(Len(out) - 1) : out[i] \notin LineBreaks

----------------------------------------------------------------------------
(* tags of the tokens of stdout *)
Tags == [i \in 1..Len(stdout) |-> stdout[i][1]]

(* the tags of stdout when the calls of order wrote one after the other *)
RECURSIVE Layout(_)
Layout(order) ==
    IF order = <<>> THEN <<>>
    ELSE [i \in 1..Len(Entry(Head(order))) |-> Head(order)] \o Layout(Tail(order))

Holder(id) == \E t \in Threads : lock = Some(t) /\ call[t] = id

(* C4: stdout is the concatenation, in lock order, of the entries of the   *)
(* calls that took the lock; every entry but that of the current holder is *)
(* complete, and a thread writes only while it holds the lock.             *)
C4_NoInterleaving ==
    /\ Tags = Layout(lockOrder)
    /\ \A t \in Threads : pc[t] = "write" => lock = Some(t)
    /\ \A k \in 1..Len(lockOrder) :
          LET id == lockOrder[k] IN
          IF Holder(id)
          THEN \E t \in Threads, ms \in Millis :
                  /\ lock = Some(t)
                  /\ Entry(id) \o Flatten(todo[t])
                        = Flatten(Render(LOGGER[1], records[id], ms))
          ELSE \E ms \in Millis :
                  Entry(id) = Flatten(Render(LOGGER[1], records[id], ms))

(* a thread waits for the lock while another is in the middle of its entry, *)
(* after an earlier entry with key/value lines was completed                *)
C4_Witness ==
    \E t \in Threads, u \in Threads :
        /\ t # u
        /\ pc[t] = "write" /\ todo[t] # <<>> /\ Emitted(call[t])
        /\ pc[u] = "lock"
        /\ Len(lockOrder) >= 2
        /\ records[lockOrder[1]].key_values # <<>>

----------------------------------------------------------------------------
Succeeded == {t \in Threads : pc[t] = "Ok"}

(* C5: once a finish has returned Ok, no other finish succeeds, a finish   *)
(* reaching set_boxed_logger returns Err, and the installed logger and the *)
(* published maximum level stay those of the first install.                *)
C5_InstallOnce ==
    [][ Succeeded # {} =>
          /\ LOGGER' = LOGGER
          /\ MAX_LOG_LEVEL_FILTER' = MAX_LOG_LEVEL_FILTER
          /\ Succeeded' = Succeeded
          /\ \A t \in Succeeded :
                /\ LOGGER = Some(femme[t])
                /\ MAX_LOG_LEVEL_FILTER = max_level[t]
          /\ \A u \in Threads :
                (pc[u] = "set_boxed_logger" /\ pc'[u] # pc[u]) => pc'[u] = "Err"
      ]_vars

(* a finish with another configuration failed after a successful install *)
C5_Witness ==
    \E t \in Threads, u \in Threads :
        /\ pc[t] = "Ok" /\ pc[u] = "Err"
        /\ femme[u] # femme[t]
        /\ max_level[u] # max_level[t]
        /\ LOGGER = Some(femme[t])

----------------------------------------------------------------------------
(* the most verbose level of a non-empty set of levels *)
MostVerbose(S) == CHOOSE m \in S : \A x \in S : x <= m

Ceiling(f) == MostVerbose({f.level} \cup {e[2] : e \in f.targets})

(* g is f with one override added or replaced by a more verbose one *)
Raises(f, g) ==
    /\ g.level = f.level
    /\ \A e \in f.targets : \E d \in g.targets : d[1] = e[1] /\ d[2] >= e[2]

(* C6: a successful finish publishes the most verbose level among the      *)
(* default and the overrides, and a level_for that adds an override or     *)
(* replaces one by a more verbose level never lowers that ceiling.         *)
C6_Ceiling ==
    [][ /\ \A t \in Threads :
              (pc[t] # "Ok" /\ pc'[t] = "Ok") =>
                  MAX_LOG_LEVEL_FILTER' = Ceiling(femme[t])
        /\ nfor' # nfor =>
              \A t \in Threads, m \in ModuleKeys, l \in LevelFilter :
                  (SetLevelFor(t, m, l) /\ Raises(femme[t], femme'[t])) =>
                      /\ compute_max_level(femme'[t]) >= compute_max_level(femme[t])
                      /\ compute_max_level(femme'[t]) = Ceiling(femme'[t])
      ]_vars

(* an override raised the ceiling above the default *)
C6_Witness ==
    \E t \in Threads :
        /\ pc[t] = "Ok"
        /\ femme[t].targets # {}
        /\ MAX_LOG_LEVEL_FILTER > femme[t].level
        /\ nfor >= 1

----------------------------------------------------------------------------
(* the ANSI colour of the human format *)
SeverityColour(lvl) ==
    IF lvl = Error THEN RED ELSE IF lvl = Warn THEN YELLOW ELSE GREEN

RECURSIVE PrettyFields(_)
PrettyFields(kvs) ==
    IF kvs = <<>> THEN <<>>
    ELSE <<"\n    ", BOLD, Head(kvs)[1], RESET, " ", Head(kvs)[2]>>
         \o PrettyFields(Tail(kvs))

PrettyEntry(r) ==
    <<SeverityColour(r.level), BOLD, Str(r.target), RESET, " ", r.args>>
    \o PrettyFields(r.key_values)
    \o <<"\n">>

(* C7: in Pretty mode the output of an emitted record is colour+bold, the  *)
(* target, reset, a space and the message, then per key/value pair in      *)
(* order a line break, four spaces, bold key reset, a space and the value, *)
(* then one line break; without pairs it is a single line.                 *)
C7_PrettyEntry ==
    \A t \in Threads :
        (Returned(t) /\ Emitted(call[t]) /\ LOGGER[1].logger = "Pretty") =>
            LET out == Entry(call[t])
                r == records[call[t]]
            IN  /\ out = PrettyEntry(r)
                /\ r.key_values = <<>> =>
                      /\ Len(out) = 7
                      /\ \A i \in 1..6 : out[i] \notin LineBreaks

(* a Warn record with two different key/value pairs was pretty-printed *)
C7_Witness ==
    \E t \in Threads :
        /\ Returned(t) /\ Emitted(call[t]) /\ LOGGER[1].logger = "Pretty"
        /\ records[call[t]].level = Warn
        /\ Len(records[call[t]].key_values) = 2
        /\ records[call[t]].key_values[1] # records[call[t]].key_values[2]

----------------------------------------------------------------------------
(* an enabled() call was made in this step *)
EnabledCalled == lastEnabled' # lastEnabled

EnabledFrame ==
    EnabledCalled =>
        /\ LOGGER' = LOGGER
        /\ MAX_LOG_LEVEL_FILTER' = MAX_LOG_LEVEL_FILTER
        /\ stdout' = stdout
        /\ femme' = femme

SameMetadata == lastEnabled # NoCall /\ lastEnabled'.level = lastEnabled.level

(* C8 as stated: two enabled() calls with the same metadata return the     *)
(* same boolean at any point of any execution, and enabled() changes       *)
(* neither the installed configuration, the published level nor stdout.    *)
C8_AlwaysSame ==
    [][ /\ EnabledFrame
        /\ (EnabledCalled /\ SameMetadata) =>
              lastEnabled'.result = lastEnabled.result
      ]_vars

(* C8 amended: two enabled() calls with the same metadata return the same  *)
(* boolean when no finish has published the global maximum level between   *)
(* them, and enabled() changes neither the installed configuration, the    *)
(* published level nor stdout.                                             *)
C8_SameUnlessPublished ==
    [][ /\ EnabledFrame
        /\ (EnabledCalled /\ SameMetadata
                /\ lastEnabled'.published = lastEnabled.published) =>
              lastEnabled'.result = lastEnabled.result
      ]_vars

(* enabled() returned true after the publication while a finish is running *)
C8_Witness ==
    /\ lastEnabled # NoCall
    /\ lastEnabled.published
    /\ lastEnabled.result
    /\ \E u \in Threads : pc[u] = "set_boxed_logger"

----------------------------------------------------------------------------
UniqueKeys(f) == \A e1 \in f.targets, e2 \in f.targets : e1[1] = e2[1] => e1 = e2

(* C9: the override table holds at most one entry per target; after        *)
(* level_for(m, l) the entry of m is l, and the default level, the render  *)
(* mode and the entries of the other targets are unchanged.                *)
C9_LevelFor ==
    [][ /\ femme' # femme => \A t \in Threads : UniqueKeys(femme'[t])
        /\ nfor' # nfor =>
              \A t \in Threads, m \in ModuleKeys, l \in LevelFilter :
                  SetLevelFor(t, m, l) =>
                      /\ {e \in femme'[t].targets : e[1] = m} = {<<m, l>>}
                      /\ {e \in femme'[t].targets : e[1] # m}
                            = {e \in femme[t].targets : e[1] # m}
                      /\ femme'[t].level = femme[t].level
                      /\ femme'[t].logger = femme[t].logger
                      /\ \A u \in Threads \ {t} : femme'[u] = femme[u]
      ]_vars

(* two level_for calls on one builder left a single entry: one replaced *)
C9_Witness ==
    \E t \in Threads :
        /\ nfor = 2
        /\ Cardinality(femme[t].targets) = 1
        /\ \A u \in Threads \ {t} : femme[u].targets = {}

----------------------------------------------------------------------------
(* the record passes the filter of the installed logger *)
Passes(r) == r.level <= module_level(LOGGER[1], r)

(* log and enabled read only the level and the module path of a record *)
Probes ==
    [level : Level, target : {<<"b">>},
     module_path : {None} \cup {Some(p) : p \in Names},
     args : {"msg"}, key_values : {<<>>}]

CeilingCovers == Published => \A r \in Probes : Passes(r) => enabled(r.level)

(* C10: once a finish has returned Ok, every record that log would emit is *)
(* enabled; the global maximum level is published only by the finish whose *)
(* logger is the installed one.                                            *)
C10_CeilingCovers ==
    /\ []CeilingCovers
    /\ [][ MAX_LOG_LEVEL_FILTER' # MAX_LOG_LEVEL_FILTER =>
              \E t \in Threads :
                  /\ pc[t] = "set_max_level" /\ pc'[t] = "Ok"
                  /\ LOGGER = Some(femme[t])
         ]_vars

(* an installed override lets through a record the default would drop *)
C10_Witness ==
    /\ Published
    /\ \E r \in Probes : Passes(r) /\ r.level > LOGGER[1].level

====
